---- MODULE Spec2Model ----
(***************************************************************************)
(* Model of hera.v1.cron_workflow_service.CronWorkflowService: a wrapper   *)
(* that builds one request envelope per operation and forwards it to the   *)
(* generated CronWorkflowServiceApi client.                                *)
(*                                                                         *)
(* The generated client and the server behind it are outside the wrapper:  *)
(* every remote call is recorded in `calls` as the wrapper issued it, and  *)
(* its outcome (a returned value or a raised error) is chosen freely.      *)
(***************************************************************************)
EXTENDS Integers, Sequences, FiniteSets, TLC

VARIABLES
    self_domain,     \* self._domain
    self_namespace,  \* self._namespace
    service,         \* self.service, the generated client handle
    calls,           \* remote calls received by the generated client, in order
    transport,       \* what the generated client did in the last invocation
    last             \* the last wrapper invocation: operation, arguments, outcome

vars == <<self_domain, self_namespace, service, calls, transport, last>>

\* Number of remote calls followed before the exploration stops.
MaxCalls == 2

----------------------------------------------------------------------------
(* Inputs *)

Domains == {"argo.example.com", "localhost:2746"}
Tokens == {"tok"}
Namespaces == {"default", "prod"}
Names == {"nightly-report", "a b/c"}
CronWorkflows == {"cw1", "cw2"}

\* A call that leaves the namespace argument out.
Omitted == "<omitted>"
NsArgs == Namespaces \cup {Omitted}

\* A field an operation or a remote call does not have.
Absent == "<absent>"

\* Values the generated client may hand back, and errors it may raise.
Results ==
    { [class |-> "tuple", data |-> "(body, 200, headers)"],
      [class |-> "IoArgoprojWorkflowV1alpha1CronWorkflow", data |-> "created"] }
Errors ==
    { [class |-> "ApiException", data |-> "404"],
      [class |-> "MaxRetryError", data |-> "connection refused"] }

Outcomes ==
    [kind : {"return"}, value : Results] \cup [kind : {"raise"}, value : Errors]

NoOutcome == [kind |-> "none", value |-> [class |-> Absent, data |-> Absent]]

----------------------------------------------------------------------------
(* Helpers *)

\* namespace: str = 'default'
DefaultNamespace(nsArg) == IF nsArg = Omitted THEN "default" ELSE nsArg

NoBody ==
    [model |-> Absent, cron_workflow |-> Absent, name |-> Absent, namespace |-> Absent]

IoArgoprojWorkflowV1alpha1CreateCronWorkflowRequest(cron_workflow, namespace) ==
    [model |-> "CreateCronWorkflowRequest", cron_workflow |-> cron_workflow,
     name |-> Absent, namespace |-> namespace]

IoArgoprojWorkflowV1alpha1CronWorkflowSuspendRequest(name, namespace) ==
    [model |-> "CronWorkflowSuspendRequest", cron_workflow |-> Absent,
     name |-> name, namespace |-> namespace]

IoArgoprojWorkflowV1alpha1CronWorkflowResumeRequest(name, namespace) ==
    [model |-> "CronWorkflowResumeRequest", cron_workflow |-> Absent,
     name |-> name, namespace |-> namespace]

\* self.service.create_cron_workflow(namespace, <envelope>, _check_return_type=False)
create_cron_workflow_mixed(cron_workflow, namespace) ==
    [method |-> "create_cron_workflow", namespace |-> namespace, name |-> Absent,
     body |-> IoArgoprojWorkflowV1alpha1CreateCronWorkflowRequest(cron_workflow, "default"),
     check_return_type |-> "False"]

create_cron_workflow(cron_workflow, namespace) ==
    [method |-> "create_cron_workflow", namespace |-> namespace, name |-> Absent,
     body |-> IoArgoprojWorkflowV1alpha1CreateCronWorkflowRequest(cron_workflow, namespace),
     check_return_type |-> "False"]

\* self.service.delete_cron_workflow(namespace, name, _check_return_type=False)
delete_cron_workflow(namespace, name) ==
    [method |-> "delete_cron_workflow", namespace |-> namespace, name |-> name,
     body |-> NoBody, check_return_type |-> "False"]

\* self.service.suspend_cron_workflow(namespace, name, <envelope>, _check_return_type=False)
suspend_cron_workflow(namespace, name) ==
    [method |-> "suspend_cron_workflow", namespace |-> namespace, name |-> name,
     body |-> IoArgoprojWorkflowV1alpha1CronWorkflowSuspendRequest(name, namespace),
     check_return_type |-> "False"]

\* self.service.resume_cron_workflow(namespace, name, body=<envelope>)
resume_cron_workflow_unchecked(namespace, name) ==
    [method |-> "resume_cron_workflow", namespace |-> namespace, name |-> name,
     body |-> IoArgoprojWorkflowV1alpha1CronWorkflowResumeRequest(name, namespace),
     check_return_type |-> "False"]

resume_cron_workflow(namespace, name) ==
    [method |-> "resume_cron_workflow", namespace |-> namespace, name |-> name,
     body |-> IoArgoprojWorkflowV1alpha1CronWorkflowResumeRequest(name, namespace),
     check_return_type |-> Absent]

\* `return self.service.<method>(...)`: the value the call returns is returned,
\* the error it raises leaves the method uncaught.
ReturnCall_wrapped(outcome) ==
    IF outcome.kind = "raise"
    THEN [kind |-> "raise", value |-> [class |-> "HeraError", data |-> outcome.value.data]]
    ELSE outcome

ReturnCall_body(outcome) ==
    IF outcome.kind = "return"
    THEN [kind |-> "return", value |-> [class |-> "object", data |-> outcome.value.data]]
    ELSE outcome

ReturnCall(outcome) == outcome

\* f'https://{self._domain}/cron-workflows/{namespace}/{name}'
RECURSIVE JoinParts(_)
JoinParts(parts) ==
    IF parts = <<>> THEN "" ELSE Head(parts) \o JoinParts(Tail(parts))

FormatLink_bound(domain, namespace, name) ==
    JoinParts(<<"https://", domain, "/cron-workflows/", self_namespace, "/", name>>)

FormatLink(domain, namespace, name) ==
    JoinParts(<<"https://", domain, "/cron-workflows/", namespace, "/", name>>)

Invocation(op, cron_workflow, name, nsArg, outcome) ==
    [op |-> op, cron_workflow |-> cron_workflow, name |-> name,
     namespace |-> nsArg, outcome |-> outcome]

----------------------------------------------------------------------------
(* Construction *)

\* CronWorkflowService(domain, token, namespace='default')
Init ==
    \E domain \in Domains, token \in Tokens, nsArg \in NsArgs :
        /\ self_domain = domain
        /\ self_namespace = DefaultNamespace(nsArg)
        /\ service = [api |-> "CronWorkflowServiceApi", host |-> domain, token |-> token]
        /\ calls = <<>>
        /\ transport = NoOutcome
        /\ last = Invocation("__init__", Absent, Absent, nsArg, NoOutcome)

----------------------------------------------------------------------------
(* Operations *)

create_rebinding(cron_workflow, nsArg) ==
    /\ Len(calls) < MaxCalls
    /\ \E o \in Outcomes :
        /\ calls' = Append(calls, create_cron_workflow(cron_workflow, DefaultNamespace(nsArg)))
        /\ transport' = o
        /\ last' = Invocation("create", cron_workflow, Absent, nsArg, ReturnCall(o))
        /\ self_namespace' = DefaultNamespace(nsArg)
    /\ UNCHANGED <<self_domain, service>>

create(cron_workflow, nsArg) ==
    /\ Len(calls) < MaxCalls
    /\ \E o \in Outcomes :
        /\ calls' = Append(calls, create_cron_workflow(cron_workflow, DefaultNamespace(nsArg)))
        /\ transport' = o
        /\ last' = Invocation("create", cron_workflow, Absent, nsArg, ReturnCall(o))
    /\ UNCHANGED <<self_domain, self_namespace, service>>

delete_retry(name, nsArg) ==
    /\ Len(calls) < MaxCalls
    /\ \E o \in Outcomes :
        /\ calls' = IF o.kind = "raise"
                    THEN calls \o << delete_cron_workflow(DefaultNamespace(nsArg), name),
                                     delete_cron_workflow(DefaultNamespace(nsArg), name) >>
                    ELSE Append(calls, delete_cron_workflow(DefaultNamespace(nsArg), name))
        /\ transport' = o
        /\ last' = Invocation("delete", Absent, name, nsArg, ReturnCall(o))
    /\ UNCHANGED <<self_domain, self_namespace, service>>

delete(name, nsArg) ==
    /\ Len(calls) < MaxCalls
    /\ \E o \in Outcomes :
        /\ calls' = Append(calls, delete_cron_workflow(DefaultNamespace(nsArg), name))
        /\ transport' = o
        /\ last' = Invocation("delete", Absent, name, nsArg, ReturnCall(o))
    /\ UNCHANGED <<self_domain, self_namespace, service>>

suspend_dedup(name, nsArg) ==
    /\ Len(calls) < MaxCalls
    /\ \/ calls = <<>>
       \/ calls # <<>> /\ calls[Len(calls)] # suspend_cron_workflow(DefaultNamespace(nsArg), name)
    /\ \E o \in Outcomes :
        /\ calls' = Append(calls, suspend_cron_workflow(DefaultNamespace(nsArg), name))
        /\ transport' = o
        /\ last' = Invocation("suspend", Absent, name, nsArg, ReturnCall(o))
    /\ UNCHANGED <<self_domain, self_namespace, service>>

suspend(name, nsArg) ==
    /\ Len(calls) < MaxCalls
    /\ \E o \in Outcomes :
        /\ calls' = Append(calls, suspend_cron_workflow(DefaultNamespace(nsArg), name))
        /\ transport' = o
        /\ last' = Invocation("suspend", Absent, name, nsArg, ReturnCall(o))
    /\ UNCHANGED <<self_domain, self_namespace, service>>

resume(name, nsArg) ==
    /\ Len(calls) < MaxCalls
    /\ \E o \in Outcomes :
        /\ calls' = Append(calls, resume_cron_workflow(DefaultNamespace(nsArg), name))
        /\ transport' = o
        /\ last' = Invocation("resume", Absent, name, nsArg, ReturnCall(o))
    /\ UNCHANGED <<self_domain, self_namespace, service>>

get_cron_workflow_link(name, nsArg) ==
    /\ transport' = NoOutcome
    /\ last' = Invocation("get_cron_workflow_link", Absent, name, nsArg,
                 [kind |-> "return",
                  value |-> [class |-> "str",
                             data |-> FormatLink(self_domain, DefaultNamespace(nsArg), name)]])
    /\ UNCHANGED <<self_domain, self_namespace, service, calls>>

Next ==
    \/ \E cron_workflow \in CronWorkflows, nsArg \in NsArgs : create(cron_workflow, nsArg)
    \/ \E name \in Names, nsArg \in NsArgs : delete(name, nsArg)
    \/ \E name \in Names, nsArg \in NsArgs : suspend(name, nsArg)
    \/ \E name \in Names, nsArg \in NsArgs : resume(name, nsArg)
    \/ \E name \in Names, nsArg \in NsArgs : get_cron_workflow_link(name, nsArg)

Spec == Init /\ [][Next]_vars

----------------------------------------------------------------------------
(* Properties *)

\* C1: every invocation of create, delete, suspend or resume adds exactly one
\* remote call to the calls the generated client received, the one that
\* corresponds to the operation, whether that call returns or raises;
\* get_cron_workflow_link adds none.
C1_ExactlyOneRemoteCall ==
    [][ IF last'.op = "get_cron_workflow_link"
        THEN calls' = calls
        ELSE /\ Len(calls') = Len(calls) + 1
             /\ SubSeq(calls', 1, Len(calls)) = calls
             /\ last'.outcome.kind \in {"return", "raise"}
             /\ calls'[Len(calls')].method =
                  CASE last'.op = "create"  -> "create_cron_workflow"
                    [] last'.op = "delete"  -> "delete_cron_workflow"
                    [] last'.op = "suspend" -> "suspend_cron_workflow"
                    [] last'.op = "resume"  -> "resume_cron_workflow" ]_vars

C1_Witness ==
    /\ last.op = "delete"
    /\ last.outcome.kind = "raise"
    /\ Len(calls) = 1
    /\ calls[1].method = "delete_cron_workflow"

\* C2: after create, suspend or resume called with namespace ns (given or
\* defaulted to 'default'), the remote call it issued has path namespace ns
\* and an envelope whose namespace is ns; no recorded call carries an envelope
\* namespace different from its path namespace.
C2_OneNamespacePerCall ==
    /\ last.op \in {"create", "suspend", "resume"} =>
         LET ns == IF last.namespace = Omitted THEN "default" ELSE last.namespace
             c == calls[Len(calls)]
         IN  c.namespace = ns /\ c.body.namespace = ns
    /\ \A i \in 1..Len(calls) :
         calls[i].body.model # Absent => calls[i].body.namespace = calls[i].namespace

C2_Witness ==
    /\ last.op = "create"
    /\ last.namespace = "prod"
    /\ calls[Len(calls)].namespace = "prod"
    /\ calls[Len(calls)].body.namespace = "prod"

\* C3: a create call that does not pass a namespace sends its request (path
\* namespace and envelope namespace) to the namespace the service was
\* constructed with.
C3_CreateUsesConstructorNamespace ==
    (last.op = "create" /\ last.namespace = Omitted) =>
        /\ calls[Len(calls)].namespace = self_namespace
        /\ calls[Len(calls)].body.namespace = self_namespace

\* C4: when the remote call of create, delete, suspend or resume raises, the
\* operation ends raising that very error, and the step changes none of the
\* wrapper's fields.
C4_ErrorPropagatedUnchanged ==
    /\ [](last.op \in {"create", "delete", "suspend", "resume"} /\ transport.kind = "raise"
            => last.outcome.kind = "raise" /\ last.outcome.value = transport.value)
    /\ [][transport'.kind = "raise" =>
            /\ self_domain' = self_domain
            /\ self_namespace' = self_namespace
            /\ service' = service]_vars

C4_Witness ==
    /\ last.op = "suspend"
    /\ transport = [kind |-> "raise", value |-> [class |-> "MaxRetryError", data |-> "connection refused"]]
    /\ last.outcome = transport

\* C5: get_cron_workflow_link(name, namespace) returns exactly
\* 'https://' + domain + '/cron-workflows/' + namespace + '/' + name, with the
\* domain of the service and the namespace argument of the call ('default'
\* when left out), and nothing escaped.
C5_LinkFormat ==
    last.op = "get_cron_workflow_link" =>
        LET ns == IF last.namespace = Omitted THEN "default" ELSE last.namespace
        IN  /\ last.outcome.kind = "return"
            /\ last.outcome.value.data =
                 "https://" \o self_domain \o "/cron-workflows/" \o ns \o "/" \o last.name
            /\ (self_domain = "argo.example.com" /\ ns = "prod" /\ last.name = "nightly-report")
                 => last.outcome.value.data =
                      "https://argo.example.com/cron-workflows/prod/nightly-report"

C5_Witness ==
    /\ last.op = "get_cron_workflow_link"
    /\ last.name = "a b/c"
    /\ last.namespace = Omitted
    /\ self_namespace = "prod"
    /\ last.outcome.value.data = "https://localhost:2746/cron-workflows/default/a b/c"

\* C7: when the remote call of create, delete, suspend or resume returns r,
\* the operation returns r itself.
C7_ResultReturnedVerbatim ==
    (last.op \in {"create", "delete", "suspend", "resume"} /\ transport.kind = "return")
        => last.outcome = transport

C7_Witness ==
    /\ last.op = "create"
    /\ transport.kind = "return"
    /\ last.outcome.kind = "return"
    /\ last.outcome.value.class = "IoArgoprojWorkflowV1alpha1CronWorkflow"

\* C8: no call, successful or failing, changes the domain, the namespace or
\* the client handle the service was constructed with.
C8_ConfigurationImmutable ==
    [][ /\ self_domain' = self_domain
        /\ self_namespace' = self_namespace
        /\ service' = service ]_vars

C8_Witness ==
    /\ last.op = "create"
    /\ last.namespace = "default"
    /\ self_namespace = "prod"
    /\ Len(calls) >= 2

\* C9: suspend, resume and delete are possible in every state, whatever was
\* called before (also for a name never created), and a suspend that follows
\* a suspend with the same name and namespace issues the same remote call
\* again.
C9_NoOrderingNoDeduplication ==
    /\ [](Len(calls) < MaxCalls =>
            \A name \in Names, nsArg \in NsArgs :
                /\ ENABLED suspend(name, nsArg)
                /\ ENABLED resume(name, nsArg)
                /\ ENABLED delete(name, nsArg))
    /\ [][ (/\ last.op = "suspend"
            /\ last'.op = "suspend"
            /\ last'.name = last.name
            /\ last'.namespace = last.namespace)
           => calls' = Append(calls, calls[Len(calls)]) ]_vars

C9_Witness ==
    /\ last.op = "suspend"
    /\ Len(calls) >= 2
    /\ calls[Len(calls)].method = "suspend_cron_workflow"
    /\ calls[Len(calls)] = calls[Len(calls) - 1]
    /\ \A i \in 1..Len(calls) : calls[i].method # "create_cron_workflow"

\* C10: the remote calls of create, delete and suspend carry
\* _check_return_type=False, the remote call of resume does not carry the
\* flag, and in suspend and resume the envelope's name is the name path
\* parameter.
C10_CheckReturnTypeFlag ==
    \A i \in 1..Len(calls) :
        LET c == calls[i]
        IN  /\ c.method \in {"create_cron_workflow", "delete_cron_workflow",
                             "suspend_cron_workflow"} => c.check_return_type = "False"
            /\ c.method = "resume_cron_workflow" => c.check_return_type = Absent
            /\ c.method \in {"suspend_cron_workflow", "resume_cron_workflow"}
                 => c.body.name = c.name

C10_Witness ==
    /\ Len(calls) >= 2
    /\ calls[1].method = "suspend_cron_workflow"
    /\ calls[1].check_return_type = "False"
    /\ calls[2].method = "resume_cron_workflow"
    /\ calls[2].check_return_type = Absent
    /\ calls[2].body.name = calls[2].name
====
